---- MODULE Spec2Model ----
(***************************************************************************)
(* Model of DriveSystem (src/src/DriveSystem.cpp): the control-mode state  *)
(* machine, the homing sequence and the current-command pipeline.          *)
(*                                                                         *)
(* Floats are fixed-point integers with Unit steps per 1.0 (half a         *)
(* milli-unit), so that the conversion to integer milli-amps rounds.       *)
(* Time is millis(), advanced in steps of half the transition duration,    *)
(* where the raised cosine of the handoff takes the exact values 0, 1/2, 1.*)
(***************************************************************************)
EXTENDS Integers, Sequences, FiniteSets, TLC

\* ---------------------------------------------------------------- bounds
\* Number of time steps millis() may advance in a behaviour.
MaxTime == 3
\* Number of events between ticks in a behaviour: the commands of the host
\* (every operation but Update) and the polls of the buses.
MaxCalls == 3

\* ------------------------------------------------------ program constants
kNumActuators == 12
kNumActuatorsPerBus == 6
MilliFactor == 1000
Unit == 2 * MilliFactor
\* PI in fixed point: 3.14159 * Unit, truncated.
PI == 6283
transition_duration == 5000
TimeStep == transition_duration \div 2

Actuators == 0 .. (kNumActuators - 1)
Legs == 0 .. 3

Abs(x) == IF x < 0 THEN -x ELSE x
Sign(x) == IF x < 0 THEN -1 ELSE 1
Fill(v) == [i \in Actuators |-> v]
One(i, v, base) == [j \in Actuators |-> IF j = i THEN v ELSE base]

\* Constructor values, in fixed point.
fault_current_0 == 10 * Unit
fault_position_ == PI
fault_velocity_0 == 7 * Unit
current_limit_ == 2 * Unit
homing_threshold == (15 * Unit) \div 100
knee_soft_limit == -(PI \div 6)

direction_multipliers_ ==
    <<-1, -1, 1, -1, 1, -1, -1, -1, 1, -1, 1, -1>>
homing_directions_ ==
    <<-1, 1, -1, 1, 1, -1, -1, 1, -1, 1, 1, -1>>
\* Sequences are 1-based, actuators 0-based.
Dir(i) == direction_multipliers_[i + 1]
HomingDir(i) == homing_directions_[i + 1]

backlash == (2 * Unit) \div 80
abduction_zero_position == 0 + backlash
hip_zero_position == ((90 - 30) * PI) \div 180 + backlash
knee_zero_position == ((180 - 30) * PI) \div 180 + backlash
abduction_init_position == (45 * PI) \div 180 + backlash
hip_init_position == (90 * PI) \div 180 + backlash
knee_init_position == ((180 - 15) * PI) \div 180 + backlash

zero_positions_cmd_ ==
    [i \in Actuators |->
        CASE i % 3 = 0 -> abduction_zero_position
          [] i % 3 = 1 -> hip_zero_position
          [] OTHER -> knee_zero_position]
initial_positions_ ==
    [i \in Actuators |->
        CASE i % 3 = 0 -> abduction_init_position
          [] i % 3 = 1 -> hip_init_position
          [] OTHER -> knee_init_position]

knee_axes_ == {2, 5, 8, 11}
hip_axes_ == {1, 4, 7, 10}
right_abduction_axes_ == {0, 6}
left_abduction_axes_ == {3, 9}

DriveControlMode ==
    {"kIdle", "kHoming", "kPositionControl", "kCartesianPositionControl",
     "kCurrentControl", "kError"}

\* ------------------------------------------------- inputs (small sets)
\* Actuator indices used by single-element inputs: one per joint type,
\* covering both buses and both sub-groups of a bus.
JointPositionInputs == {One(2, 3000, 0)}
\* SetCurrent(i, current_reference): <<i, current_reference>>.
CurrentInputs == {<<4, 3>>, <<4, -50000>>, <<8, 3>>, <<12, 3>>}
\* The actuator index passed to a getter.
IndexInputs == {4, 12}
\* Where a store one past the end of current_reference_ may land: in
\* padding or a member this model does not hold, or in the first element of
\* the next per-actuator vector of the object.
OutOfBoundsOutcomes == {"none", "last_commanded_current_"}
MaxCurrentInputs == {0, 3}
FaultCurrentInputs == {2}
FaultVelocityInputs == {10}
GainInputs == {2}
ActivationInputs == {One(4, FALSE, TRUE)}
ZeroPositionInputs == {Fill(100)}
\* What the members the constructor leaves unassigned hold: zero when the
\* object has static storage, anything otherwise.
StorageInputs == {0, 2}
\* Telemetry the buses may report after a poll: <<positions, velocities>>.
SensorScenarios ==
    {<<Fill(0), Fill(0)>>,
     <<Fill(200), One(5, 100, 0)>>,
     <<One(7, 400, 0), Fill(0)>>,
     <<One(2, 7000, 0), Fill(0)>>,
     <<Fill(0), One(5, 15000, 0)>>}

\* Raw joint torques of one leg before saturation, ~jac * cartesian_forces:
\* the kinematics and the Jacobian are computed outside this file, so the
\* product is an input of the tick.
JointTorqueInputs == {<<0, 0, 0>>, <<1, -8, 2>>, <<6000, -1000, 2000>>}

\* ------------------------------------------------------------- Utils
\* Utils::Constrain on one element.
Constrain1(x, low, high) ==
    IF x < low THEN low ELSE IF x > high THEN high ELSE x
Constrain(v, low, high) == [i \in DOMAIN v |-> Constrain1(v[i], low, high)]
Maximum(v) == CHOOSE m \in {v[i] : i \in DOMAIN v} :
                 \A i \in DOMAIN v : v[i] <= m
Minimum(v) == CHOOSE m \in {v[i] : i \in DOMAIN v} :
                 \A i \in DOMAIN v : v[i] >= m
MaskArray(v, mask) == [i \in DOMAIN v |-> IF mask[i] THEN v[i] ELSE 0]
ElemMultiply(v) == [i \in DOMAIN v |-> v[i] * Dir(i)]
\* Round to nearest, ties away from zero: x is in fixed point, the result an
\* integer number of 1/factor units.
Round(x, factor) ==
    Sign(x) * ((2 * Abs(x) * factor + Unit) \div (2 * Unit))
ConvertToFixedPoint(v, factor) == [i \in DOMAIN v |-> Round(v[i], factor)]
InfinityNorm3(t) == Maximum([k \in 1 .. 3 |-> Abs(t[k])])
\* PD with integer gains: kp * (ref - pos) + kd * (ref_vel - vel).
PD(pos, vel, ref, ref_vel, gains) ==
    gains.kp * (ref - pos) + gains.kd * (ref_vel - vel)
\* Kinematics of the default stance; the geometry is outside this file.
DefaultCartesianPositions == Fill(50)

\* ------------------------------------------------------------- state
VARIABLES
    control_mode_,
    fault_current_, fault_velocity_, max_current_,
    position_reference_, velocity_reference_, current_reference_,
    cartesian_position_reference_, cartesian_velocity_reference_, ff_force_,
    position_gains_,
    active_mask_, zero_position_, start_position_,
    homed_axes_, just_homed_,
    last_commanded_current_,
    transition,       \* the static locals of Update's kPositionControl case
    raw_position, raw_velocity,   \* telemetry cached by the two buses
    homing_completed_at,  \* millis() of the homing tick that completed the
                          \* homing begun last, -1 when there is none
    now,              \* millis()
    calls,            \* host commands and bus polls so far
    torque_commands,  \* CommandTorques calls issued by the last operation
    last              \* what the last operation was and did

vars ==
    <<control_mode_, fault_current_, fault_velocity_, max_current_,
      position_reference_, velocity_reference_, current_reference_,
      cartesian_position_reference_, cartesian_velocity_reference_, ff_force_,
      position_gains_, active_mask_, zero_position_, start_position_,
      homed_axes_, just_homed_, last_commanded_current_, transition,
      homing_completed_at, raw_position, raw_velocity, now, calls,
      torque_commands, last>>

config_vars == <<fault_current_, fault_velocity_, max_current_, position_gains_>>
reference_vars ==
    <<position_reference_, velocity_reference_, current_reference_,
      cartesian_position_reference_, cartesian_velocity_reference_, ff_force_>>
homing_vars ==
    <<zero_position_, start_position_, homed_axes_, just_homed_,
      homing_completed_at>>
sensor_vars == <<raw_position, raw_velocity>>

\* The record of an operation that is not Update, with the actuator index
\* it was given (-1 when it takes none). Setters of limits, gains and the
\* mask are recorded as "Set", without the mode they were called in.
DidAt(op, index) ==
    [op |-> op,
     mode0 |-> IF op \in {"ExecuteHomingSequence", "DriveSystem"}
               THEN control_mode_ ELSE "-",
     index |-> index,
     fault |-> FALSE, warning |-> FALSE,
     commanded |-> FALSE, requested |-> Fill(0), gated |-> FALSE]
Did(op) == DidAt(op, -1)

\* DriveSystem::DriveSystem. Members the constructor does not assign
\* (position_gains_, last_commanded_current_, cartesian_velocity_reference_,
\* ff_force_) hold whatever the storage held.
Init ==
    /\ control_mode_ = "kIdle"
    /\ fault_current_ = fault_current_0
    /\ fault_velocity_ = fault_velocity_0
    /\ max_current_ = 0
    /\ position_reference_ = Fill(0)
    /\ velocity_reference_ = Fill(0)
    /\ current_reference_ = Fill(0)
    /\ active_mask_ = Fill(FALSE)
    /\ zero_position_ = Fill(0)
    /\ start_position_ = Fill(0)
    /\ cartesian_position_reference_ = DefaultCartesianPositions
    /\ \E garbage \in StorageInputs :
          /\ cartesian_velocity_reference_ = Fill(garbage)
          /\ ff_force_ = Fill(garbage)
          /\ position_gains_ = [kp |-> garbage, kd |-> garbage]
          /\ last_commanded_current_ = Fill(garbage)
    /\ homed_axes_ = Fill(FALSE)
    /\ just_homed_ = FALSE
    /\ transition = [initialized |-> FALSE, transition_start_time |-> 0,
                     start_positions |-> Fill(0), target_positions |-> Fill(0)]
    /\ homing_completed_at = -1
    /\ raw_position = Fill(0)
    /\ raw_velocity = Fill(0)
    /\ now = 0
    /\ calls = 0
    /\ torque_commands = <<>>
    /\ last = Did("DriveSystem")

\* ------------------------------------------------------------ getters
\* GetActuatorPosition(i) with the zero offsets `zero`.
ActuatorPosition(zero, i) == (raw_position[i] - zero[i]) * Dir(i)
GetActuatorPosition(i) == ActuatorPosition(zero_position_, i)
GetActuatorVelocity(i) == raw_velocity[i] * Dir(i)
GetRawActuatorPositions == raw_position

\* CheckErrors: the first actuator over a limit gives kError, else kIdle.
CheckErrors ==
    IF \E i \in Actuators :
          \/ Abs(GetActuatorPosition(i)) > fault_position_
          \/ Abs(GetActuatorVelocity(i)) > fault_velocity_
    THEN "kError"
    ELSE "kIdle"

CheckHomingStatus(axes) == \A i \in axes : homed_axes_[i]

\* ---------------------------------------------------- command pipeline
\* The CommandTorques calls without those to the rear bus.
TorqueCalls_FrontOnly(mA) ==
    << [bus |-> "front_bus_", subbus |-> "kIDZeroToThree",
        torques |-> <<mA[0], mA[1], mA[2], mA[3]>>],
       [bus |-> "front_bus_", subbus |-> "kIDFourToSeven",
        torques |-> <<mA[4], mA[5], 0, 0>>] >>

\* The four CommandTorques calls of CommandCurrents, in the order issued.
TorqueCalls(mA) ==
    << [bus |-> "front_bus_", subbus |-> "kIDZeroToThree",
        torques |-> <<mA[0], mA[1], mA[2], mA[3]>>],
       [bus |-> "front_bus_", subbus |-> "kIDFourToSeven",
        torques |-> <<mA[4], mA[5], 0, 0>>],
       [bus |-> "rear_bus_", subbus |-> "kIDZeroToThree",
        torques |-> <<mA[6], mA[7], mA[8], mA[9]>>],
       [bus |-> "rear_bus_", subbus |-> "kIDFourToSeven",
        torques |-> <<mA[10], mA[11], 0, 0>>] >>

\* CommandCurrents without the clamp to [-max_current_, max_current_].
CommandCurrents_NoClamp(currents) ==
    LET masked == MaskArray(currents, active_mask_)
        currents_mA ==
            ConvertToFixedPoint(ElemMultiply(masked), MilliFactor)
    IN  IF \/ Maximum(currents) > fault_current_
           \/ Minimum(currents) < -fault_current_
        THEN [gated |-> TRUE,
              last_commanded_current |-> last_commanded_current_,
              calls |-> <<>>]
        ELSE [gated |-> FALSE,
              last_commanded_current |-> masked,
              calls |-> TorqueCalls(currents_mA)]

\* CommandCurrents whose fault gate tests the largest element only.
CommandCurrents_OneSided(currents) ==
    LET current_command == Constrain(currents, -max_current_, max_current_)
        masked == MaskArray(current_command, active_mask_)
        currents_mA ==
            ConvertToFixedPoint(ElemMultiply(masked), MilliFactor)
    IN  IF Maximum(current_command) > fault_current_
        THEN [gated |-> TRUE,
              last_commanded_current |-> last_commanded_current_,
              calls |-> <<>>]
        ELSE [gated |-> FALSE,
              last_commanded_current |-> masked,
              calls |-> TorqueCalls(currents_mA)]

\* CommandCurrents that records and sends the command before masking it.
CommandCurrents_NoMask(currents) ==
    LET current_command == Constrain(currents, -max_current_, max_current_)
        currents_mA ==
            ConvertToFixedPoint(ElemMultiply(current_command), MilliFactor)
    IN  IF \/ Maximum(current_command) > fault_current_
           \/ Minimum(current_command) < -fault_current_
        THEN [gated |-> TRUE,
              last_commanded_current |-> last_commanded_current_,
              calls |-> <<>>]
        ELSE [gated |-> FALSE,
              last_commanded_current |-> current_command,
              calls |-> TorqueCalls(currents_mA)]

\* CommandCurrents clamping to the fault current instead of max_current_.
CommandCurrents_ClampFault(currents) ==
    LET current_command ==
            Constrain(currents, -fault_current_, fault_current_)
        masked == MaskArray(current_command, active_mask_)
        currents_mA ==
            ConvertToFixedPoint(ElemMultiply(masked), MilliFactor)
    IN  IF \/ Maximum(current_command) > fault_current_
           \/ Minimum(current_command) < -fault_current_
        THEN [gated |-> TRUE,
              last_commanded_current |-> last_commanded_current_,
              calls |-> <<>>]
        ELSE [gated |-> FALSE,
              last_commanded_current |-> masked,
              calls |-> TorqueCalls(currents_mA)]

\* CommandCurrents(currents) as the effect it has: whether the fault gate
\* tripped, the new last_commanded_current_ and the CommandTorques calls.
CommandCurrents(currents) ==
    LET current_command == Constrain(currents, -max_current_, max_current_)
        masked == MaskArray(current_command, active_mask_)
        currents_mA ==
            ConvertToFixedPoint(ElemMultiply(masked), MilliFactor)
    IN  IF \/ Maximum(current_command) > fault_current_
           \/ Minimum(current_command) < -fault_current_
        THEN [gated |-> TRUE,
              last_commanded_current |-> last_commanded_current_,
              calls |-> <<>>]
        ELSE [gated |-> FALSE,
              last_commanded_current |-> masked,
              calls |-> TorqueCalls(currents_mA)]

\* ------------------------------------------------------------ setters
\* A command of the host: counted, and it issues no CommandTorques call.
HostCallAt(op, index) ==
    /\ calls < MaxCalls
    /\ calls' = calls + 1
    /\ torque_commands' = <<>>
    /\ last' = DidAt(op, index)
HostCall(op) == HostCallAt(op, -1)

SetIdle ==
    /\ control_mode_' = "kIdle"
    /\ HostCall("SetIdle")
    /\ UNCHANGED <<config_vars, reference_vars, homing_vars, sensor_vars,
                   active_mask_, last_commanded_current_, transition, now>>

\* ExecuteHomingSequence without the call of SetActivations.
ExecuteHomingSequence_KeepMask ==
    /\ control_mode_' = "kHoming"
    /\ homed_axes_' = [i \in Actuators |-> FALSE]
    /\ max_current_' = current_limit_
    /\ homing_completed_at' = -1
    /\ HostCall("ExecuteHomingSequence")
    /\ UNCHANGED <<fault_current_, fault_velocity_, position_gains_,
                   reference_vars, zero_position_, start_position_,
                   just_homed_, sensor_vars, last_commanded_current_,
                   transition, now, active_mask_>>

\* ExecuteHomingSequence without the loop that clears homed_axes_.
ExecuteHomingSequence_KeepHomed ==
    /\ control_mode_' = "kHoming"
    /\ active_mask_' = Fill(TRUE)
    /\ max_current_' = current_limit_
    /\ homing_completed_at' = -1
    /\ HostCall("ExecuteHomingSequence")
    /\ UNCHANGED <<fault_current_, fault_velocity_, position_gains_,
                   reference_vars, zero_position_, start_position_,
                   just_homed_, sensor_vars, last_commanded_current_,
                   transition, now, homed_axes_>>

ExecuteHomingSequence ==
    /\ control_mode_' = "kHoming"
    /\ homed_axes_' = [i \in Actuators |-> FALSE]
    /\ active_mask_' = Fill(TRUE)
    /\ max_current_' = current_limit_
    /\ homing_completed_at' = -1
    /\ HostCall("ExecuteHomingSequence")
    /\ UNCHANGED <<fault_current_, fault_velocity_, position_gains_,
                   reference_vars, zero_position_, start_position_,
                   just_homed_, sensor_vars, last_commanded_current_,
                   transition, now>>

SetZeroPositions ==
    \E zero \in ZeroPositionInputs :
        /\ zero_position_' = zero
        /\ HostCall("SetZeroPositions")
        /\ UNCHANGED <<control_mode_, config_vars, reference_vars,
                       start_position_, homed_axes_, just_homed_,
                       homing_completed_at, sensor_vars, active_mask_,
                       last_commanded_current_, transition, now>>

\* ZeroCurrentPosition storing the calibrated positions instead of the raw.
ZeroCurrentPosition_Calibrated ==
    /\ zero_position_' = [i \in Actuators |-> GetActuatorPosition(i)]
    /\ HostCall("ZeroCurrentPosition")
    /\ UNCHANGED <<control_mode_, config_vars, reference_vars,
                   start_position_, homed_axes_, just_homed_,
                   homing_completed_at, sensor_vars, active_mask_,
                   last_commanded_current_, transition, now>>

ZeroCurrentPosition ==
    /\ zero_position_' = GetRawActuatorPositions
    /\ HostCall("ZeroCurrentPosition")
    /\ UNCHANGED <<control_mode_, config_vars, reference_vars,
                   start_position_, homed_axes_, just_homed_,
                   homing_completed_at, sensor_vars, active_mask_,
                   last_commanded_current_, transition, now>>

SetJointPositions ==
    \E pos \in JointPositionInputs :
        /\ control_mode_' = "kPositionControl"
        /\ position_reference_' = pos
        /\ HostCall("SetJointPositions")
        /\ UNCHANGED <<config_vars, velocity_reference_, current_reference_,
                       cartesian_position_reference_,
                       cartesian_velocity_reference_, ff_force_, homing_vars,
                       sensor_vars, active_mask_, last_commanded_current_,
                       transition, now>>

SetPositionKp ==
    \E kp \in GainInputs :
        /\ position_gains_' = [position_gains_ EXCEPT !.kp = kp]
        /\ HostCall("Set")
        /\ UNCHANGED <<control_mode_, fault_current_, fault_velocity_,
                       max_current_, reference_vars, homing_vars, sensor_vars,
                       active_mask_, last_commanded_current_, transition, now>>

SetPositionKd ==
    \E kd \in GainInputs :
        /\ position_gains_' = [position_gains_ EXCEPT !.kd = kd]
        /\ HostCall("Set")
        /\ UNCHANGED <<control_mode_, fault_current_, fault_velocity_,
                       max_current_, reference_vars, homing_vars, sensor_vars,
                       active_mask_, last_commanded_current_, transition, now>>

SetCartesianPositions ==
    \E pos \in {Fill(0)} :
        /\ control_mode_' = "kCartesianPositionControl"
        /\ cartesian_position_reference_' = pos
        /\ HostCall("SetCartesianPositions")
        /\ UNCHANGED <<config_vars, position_reference_, velocity_reference_,
                       current_reference_, cartesian_velocity_reference_,
                       ff_force_, homing_vars, sensor_vars, active_mask_,
                       last_commanded_current_, transition, now>>

SetCartesianVelocities ==
    \E vel \in {Fill(0)} :
        /\ control_mode_' = "kCartesianPositionControl"
        /\ cartesian_velocity_reference_' = vel
        /\ HostCall("SetCartesianVelocities")
        /\ UNCHANGED <<config_vars, position_reference_, velocity_reference_,
                       current_reference_, cartesian_position_reference_,
                       ff_force_, homing_vars, sensor_vars, active_mask_,
                       last_commanded_current_, transition, now>>

SetFeedForwardForce ==
    \E force \in {Fill(0)} :
        /\ ff_force_' = force
        /\ HostCall("Set")
        /\ UNCHANGED <<control_mode_, config_vars, position_reference_,
                       velocity_reference_, current_reference_,
                       cartesian_position_reference_,
                       cartesian_velocity_reference_, homing_vars, sensor_vars,
                       active_mask_, last_commanded_current_, transition, now>>

\* SetCurrent(i, current_reference). The index is not checked: with i past
\* the end of current_reference_ the store lands outside the array.
SetCurrent ==
    \E c \in CurrentInputs :
        /\ control_mode_' = "kCurrentControl"
        /\ IF c[1] \in Actuators
           THEN /\ current_reference_' =
                       [current_reference_ EXCEPT ![c[1]] = c[2]]
                /\ UNCHANGED last_commanded_current_
           ELSE \E outcome \in OutOfBoundsOutcomes :
                   /\ UNCHANGED current_reference_
                   /\ last_commanded_current_' =
                          IF outcome = "last_commanded_current_"
                          THEN [last_commanded_current_
                                   EXCEPT ![c[1] - kNumActuators] = c[2]]
                          ELSE last_commanded_current_
        /\ HostCallAt("SetCurrent", c[1])
        /\ UNCHANGED <<config_vars, position_reference_, velocity_reference_,
                       cartesian_position_reference_,
                       cartesian_velocity_reference_, ff_force_, homing_vars,
                       sensor_vars, active_mask_, transition, now>>

\* GetController(i), as GetRawActuatorPosition, GetActuatorPosition,
\* GetActuatorVelocity and GetActuatorCurrent call it with their index: an
\* index past the last actuator puts the system in kError.
GetController ==
    \E i \in IndexInputs :
        /\ control_mode_' =
               IF i \in Actuators THEN control_mode_ ELSE "kError"
        /\ HostCallAt("GetController", i)
        /\ UNCHANGED <<config_vars, reference_vars, homing_vars, sensor_vars,
                       active_mask_, last_commanded_current_, transition, now>>

SetFaultCurrent ==
    \E fault_current \in FaultCurrentInputs :
        /\ fault_current_' = fault_current
        /\ HostCall("Set")
        /\ UNCHANGED <<control_mode_, fault_velocity_, max_current_,
                       position_gains_, reference_vars, homing_vars,
                       sensor_vars, active_mask_, last_commanded_current_,
                       transition, now>>

SetFaultVelocity ==
    \E fault_velocity \in FaultVelocityInputs :
        /\ fault_velocity_' = fault_velocity
        /\ HostCall("Set")
        /\ UNCHANGED <<control_mode_, fault_current_, max_current_,
                       position_gains_, reference_vars, homing_vars,
                       sensor_vars, active_mask_, last_commanded_current_,
                       transition, now>>

SetMaxCurrent ==
    \E max_current \in MaxCurrentInputs :
        /\ max_current_' = max_current
        /\ HostCall("Set")
        /\ UNCHANGED <<control_mode_, fault_current_, fault_velocity_,
                       position_gains_, reference_vars, homing_vars,
                       sensor_vars, active_mask_, last_commanded_current_,
                       transition, now>>

SetActivations ==
    \E acts \in ActivationInputs :
        /\ active_mask_' = acts
        /\ HostCall("Set")
        /\ UNCHANGED <<control_mode_, config_vars, reference_vars, homing_vars,
                       sensor_vars, last_commanded_current_, transition, now>>

\* ------------------------------------------------------- environment
\* CheckForCANMessages: both buses refresh their cached telemetry.
CheckForCANMessages ==
    \E s \in SensorScenarios :
        /\ raw_position' = s[1]
        /\ raw_velocity' = s[2]
        /\ calls < MaxCalls
        /\ calls' = calls + 1
        /\ torque_commands' = <<>>
        /\ last' = Did("Poll")
        /\ UNCHANGED <<control_mode_, config_vars, reference_vars, homing_vars,
                       active_mask_, last_commanded_current_, transition, now>>

\* millis() advances.
TimePasses ==
    /\ now < MaxTime * TimeStep
    /\ now' = now + TimeStep
    /\ torque_commands' = <<>>
    /\ last' = Did("millis")
    /\ UNCHANGED <<control_mode_, config_vars, reference_vars, homing_vars,
                   sensor_vars, active_mask_, last_commanded_current_,
                   transition, calls>>

\* ------------------------------------------------------------ Update
\* CartesianPositionControl, given each leg's raw joint torques: saturation
\* that keeps the direction, then the knee soft-limit torque on the knee.
LegTorques(joint_torques, leg_index) ==
    LET knee_angle == GetActuatorPosition(3 * leg_index + 2)
        knee_constraint_torque ==
            IF knee_angle > knee_soft_limit
            THEN position_gains_.kp * (knee_soft_limit - knee_angle)
            ELSE 0
        norm == InfinityNorm3(joint_torques)
        saturated ==
            IF norm > max_current_
            THEN [k \in 1 .. 3 |->
                     Sign(joint_torques[k])
                     * ((Abs(joint_torques[k]) * max_current_) \div norm)]
            ELSE joint_torques
    IN  <<saturated[1], saturated[2], saturated[3] + knee_constraint_torque>>

CartesianPositionControl(torques_of_leg) ==
    [i \in Actuators |->
        LegTorques(torques_of_leg[i \div 3], i \div 3)[(i % 3) + 1]]

\* Progress of the handoff in halves (0, 1/2, 1), clamped to [0, 1].
Progress2(transition_start_time) ==
    LET p == (2 * (now - transition_start_time)) \div transition_duration
    IN  IF p < 0 THEN 0 ELSE IF p > 2 THEN 2 ELSE p
\* 0.5 - 0.5 * cos(progress * PI), in halves, at progress 0, 1/2 and 1.
SmoothProgress2(progress2) ==
    CASE progress2 = 0 -> 0
      [] progress2 = 1 -> 1
      [] OTHER -> 2

\* The static locals after the kPositionControl case ran with just_homed_:
\* they are initialised the first time control passes their declaration.
Latch(zero, position_reference) ==
    IF transition.initialized
    THEN transition
    ELSE [initialized |-> TRUE,
          transition_start_time |-> now,
          start_positions |-> [i \in Actuators |-> ActuatorPosition(zero, i)],
          target_positions |-> position_reference]

\* The PD current of the kPositionControl case while just_homed_.
HandoffCurrent(zero, statics) ==
    LET smooth2 == SmoothProgress2(Progress2(statics.transition_start_time))
        interpolated_positions ==
            [i \in Actuators |->
                statics.start_positions[i]
                + ((statics.target_positions[i] - statics.start_positions[i])
                   * smooth2) \div 2]
    IN  [i \in Actuators |->
            PD(ActuatorPosition(zero, i), GetActuatorVelocity(i),
               interpolated_positions[i], velocity_reference_[i],
               position_gains_)]

\* The PD current of the kPositionControl case otherwise.
DirectCurrent(zero, position_reference) ==
    [i \in Actuators |->
        PD(ActuatorPosition(zero, i), GetActuatorVelocity(i),
           position_reference[i], velocity_reference_[i], position_gains_)]

\* The end of a tick that reaches CommandCurrents(requested) in mode `mode`.
Command(mode, fault, requested) ==
    LET r == CommandCurrents(requested)
    IN  /\ control_mode_' = IF r.gated THEN "kError" ELSE mode
        /\ last_commanded_current_' = r.last_commanded_current
        /\ torque_commands' = r.calls
        /\ last' = [op |-> "Update", mode0 |-> control_mode_, index |-> -1,
                    fault |-> fault, warning |-> FALSE, commanded |-> TRUE,
                    requested |-> requested, gated |-> r.gated]

\* CommandIdle that passes the stored current reference.
CommandIdle_Reference(mode, fault) == Command(mode, fault, current_reference_)

\* CommandIdle.
CommandIdle(mode, fault) == Command(mode, fault, Fill(0))

\* case kPositionControl, entered with the given zero offsets, reference and
\* just_homed_ (those of the state, or those the kHoming case just wrote).
PositionControl(zero, position_reference, just_homed) ==
    IF just_homed
    THEN LET statics == Latch(zero, position_reference)
         IN  /\ transition' = statics
             /\ Command("kPositionControl", FALSE,
                        HandoffCurrent(zero, statics))
             /\ just_homed_' =
                    (Progress2(statics.transition_start_time) < 2)
    ELSE /\ Command("kPositionControl", FALSE,
                    DirectCurrent(zero, position_reference))
         /\ just_homed_' = FALSE
         /\ UNCHANGED transition

\* The start-position check looking at the first actuator only.
PositionWarning_First(start) == Abs(start[0]) > homing_threshold

\* The start-position check of the kHoming case.
PositionWarning(start) ==
    \E i \in Actuators : Abs(start[i]) > homing_threshold

\* The zero offsets without the homing direction.
HomingZero_NoHomingDir(start) ==
    [i \in Actuators |-> start[i] - (zero_positions_cmd_[i] * Dir(i))]

\* The zero offsets the kHoming case writes.
HomingZero(start) ==
    [i \in Actuators |->
        start[i] - (zero_positions_cmd_[i] * Dir(i) * HomingDir(i))]

\* case kHoming writing the zero offsets before the start-position check.
Homing_ZeroBeforeCheck ==
    LET start == GetRawActuatorPositions
        position_warning == PositionWarning(start)
        zero == HomingZero(start)
        non_constrained_positions ==
            [i \in Actuators |-> initial_positions_[i] * HomingDir(i)]
        reference == Constrain(non_constrained_positions, -PI, PI)
    IN  /\ start_position_' = start
        /\ zero_position_' = zero
        /\ IF position_warning
           THEN /\ control_mode_' = "kError"
                /\ torque_commands' = <<>>
                /\ last' = [op |-> "Update", mode0 |-> control_mode_,
                            index |-> -1, fault |-> FALSE, warning |-> TRUE,
                            commanded |-> FALSE, requested |-> Fill(0),
                            gated |-> FALSE]
                /\ UNCHANGED <<homed_axes_, just_homed_, homing_completed_at,
                               position_reference_, transition,
                               last_commanded_current_>>
           ELSE /\ homed_axes_' = [i \in Actuators |-> TRUE]
                /\ homing_completed_at' = now
                /\ position_reference_' = reference
                /\ PositionControl(zero, reference, TRUE)

\* case kHoming.
Homing ==
    LET start == GetRawActuatorPositions
        position_warning == PositionWarning(start)
        zero == HomingZero(start)
        non_constrained_positions ==
            [i \in Actuators |-> initial_positions_[i] * HomingDir(i)]
        reference == Constrain(non_constrained_positions, -PI, PI)
    IN  /\ start_position_' = start
        /\ IF position_warning
           THEN /\ control_mode_' = "kError"
                /\ torque_commands' = <<>>
                /\ last' = [op |-> "Update", mode0 |-> control_mode_,
                            index |-> -1, fault |-> FALSE, warning |-> TRUE,
                            commanded |-> FALSE, requested |-> Fill(0),
                            gated |-> FALSE]
                /\ UNCHANGED <<zero_position_, homed_axes_, just_homed_,
                               homing_completed_at, position_reference_,
                               transition, last_commanded_current_>>
           ELSE /\ zero_position_' = zero
                /\ homed_axes_' = [i \in Actuators |-> TRUE]
                /\ homing_completed_at' = now
                /\ position_reference_' = reference
                /\ PositionControl(zero, reference, TRUE)

\* The dispatch mode when the result of CheckErrors is dropped.
DispatchMode_Ignore(fault) == control_mode_

\* The mode the switch of Update dispatches on.
DispatchMode(fault) == IF fault THEN "kError" ELSE control_mode_

Update ==
    LET fault == (CheckErrors = "kError")
        mode == DispatchMode(fault)
    IN  /\ UNCHANGED <<config_vars, velocity_reference_, current_reference_,
                       cartesian_position_reference_,
                       cartesian_velocity_reference_, ff_force_, sensor_vars,
                       active_mask_, now, calls>>
        /\ CASE mode \in {"kError", "kIdle"} ->
                  /\ CommandIdle(mode, fault)
                  /\ UNCHANGED <<homing_vars, position_reference_, transition>>
             [] mode = "kHoming" -> Homing
             [] mode = "kPositionControl" ->
                  /\ PositionControl(zero_position_, position_reference_,
                                     just_homed_)
                  /\ UNCHANGED <<zero_position_, start_position_, homed_axes_,
                                 homing_completed_at, position_reference_>>
             [] mode = "kCartesianPositionControl" ->
                  \E leg \in {0, 3}, joint_torques \in JointTorqueInputs :
                      /\ Command(mode, fault,
                                 CartesianPositionControl(
                                     [l \in Legs |->
                                         IF l = leg THEN joint_torques
                                         ELSE <<0, 0, 0>>]))
                      /\ UNCHANGED <<homing_vars, position_reference_,
                                     transition>>
             [] mode = "kCurrentControl" ->
                  /\ Command(mode, fault, current_reference_)
                  /\ UNCHANGED <<homing_vars, position_reference_, transition>>

Next ==
    \/ SetIdle
    \/ ExecuteHomingSequence
    \/ ZeroCurrentPosition
    \/ SetZeroPositions
    \/ SetJointPositions
    \/ SetPositionKp
    \/ SetPositionKd
    \/ SetCartesianPositions
    \/ SetCartesianVelocities
    \/ SetFeedForwardForce
    \/ SetCurrent
    \/ GetController
    \/ SetFaultCurrent
    \/ SetFaultVelocity
    \/ SetMaxCurrent
    \/ SetActivations
    \/ CheckForCANMessages
    \/ TimePasses
    \/ Update

Spec == Init /\ [][Next]_vars

\* =============================================================== claims
\* Every torque of every CommandTorques call of the last operation.
SentTorques ==
    {torque_commands[k].torques[j] :
        k \in 1 .. Len(torque_commands), j \in 1 .. 4}
\* The torque sent for actuator i, when CommandCurrents dispatched.
SentTo(i) ==
    CASE i < 4 -> torque_commands[1].torques[i + 1]
      [] i < 6 -> torque_commands[2].torques[i - 3]
      [] i < 10 -> torque_commands[3].torques[i - 5]
      [] OTHER -> torque_commands[4].torques[i - 9]
\* Four calls, to both sub-groups of both buses, every torque zero.
AllZeroDispatched ==
    /\ Len(torque_commands) = 4
    /\ {<<torque_commands[k].bus, torque_commands[k].subbus>> : k \in 1 .. 4}
         = {"front_bus_", "rear_bus_"} \X {"kIDZeroToThree", "kIDFourToSeven"}
    /\ SentTorques = {0}
LastUpdate == last.op = "Update"
\* Some element of `requested`, clamped to the current limit, exceeds the
\* fault current.
ExceedsFault(requested) ==
    \E i \in Actuators :
        Abs(Constrain1(requested[i], -max_current_, max_current_))
            > fault_current_

\* C1: once the mode is kError, every step that is not SetIdle (a tick or any
\* setter) leaves it kError.
C1_ErrorSticky ==
    [][(control_mode_ = "kError" /\ last'.op # "SetIdle")
          => control_mode_' = "kError"]_vars

\* C2: every torque handed to CommandTorques has magnitude at most the
\* current limit and at most the fault current, both taken in milli-units
\* after rounding (the limits are never negative).
C2_NoUnsafeCurrent ==
    \A t \in SentTorques :
        /\ Abs(t) <= Round(max_current_, MilliFactor)
        /\ Abs(t) <= Round(fault_current_, MilliFactor)
\* A non-zero torque was sent that rounding carried up to the rounded limit,
\* above the exact limit.
C2_Witness ==
    /\ LastUpdate
    /\ \E t \in SentTorques :
          /\ t # 0
          /\ Abs(t) = Round(max_current_, MilliFactor)
          /\ Abs(t) * Unit > max_current_ * MilliFactor

\* C3: a tick that finds a position or velocity fault ends in kError with
\* all-zero torques dispatched to both buses, whatever the mode it began in.
C3_FaultOverrides ==
    (LastUpdate /\ last.fault)
        => (control_mode_ = "kError" /\ AllZeroDispatched)
\* A fault found by a tick that began in kHoming with non-zero gains and a
\* non-zero current limit.
C3_Witness ==
    /\ LastUpdate
    /\ last.fault
    /\ last.mode0 = "kHoming"
    /\ position_gains_.kp > 0
    /\ max_current_ > 0

\* C4: a tick whose requested currents, clamped, exceed the fault current
\* ends in kError, leaves last_commanded_current_ as it was and makes no
\* CommandTorques call.
C4_FaultGate ==
    [][(last'.op = "Update" /\ last'.commanded /\ ExceedsFault(last'.requested))
          => /\ control_mode_' = "kError"
             /\ last_commanded_current_' = last_commanded_current_
             /\ torque_commands' = <<>>]_vars
\* The gate was tripped by a request below the negative fault current.
C4_Witness ==
    /\ LastUpdate
    /\ last.commanded
    /\ ExceedsFault(last.requested)
    /\ \E i \in Actuators : last.requested[i] < -fault_current_

\* C5: a fault-free tick in kHoming with a raw start position over the
\* threshold ends in kError and changes no zero offset, no homed flag, no
\* position reference and not just_homed_.
C5_HomingAbort ==
    [][(/\ last'.op = "Update"
        /\ control_mode_ = "kHoming"
        /\ CheckErrors = "kIdle"
        /\ \E i \in Actuators : Abs(raw_position[i]) > homing_threshold)
          => /\ control_mode_' = "kError"
             /\ zero_position_' = zero_position_
             /\ homed_axes_' = homed_axes_
             /\ position_reference_' = position_reference_
             /\ just_homed_' = just_homed_]_vars
\* A homing tick aborted on an actuator other than the first.
C5_Witness ==
    /\ LastUpdate
    /\ last.mode0 = "kHoming"
    /\ ~last.fault
    /\ Abs(start_position_[0]) <= homing_threshold
    /\ \E i \in Actuators : Abs(start_position_[i]) > homing_threshold

\* C6: a fault-free tick that begins in kIdle or kError dispatches all-zero
\* torques to both sub-groups of both buses, whatever the references, the
\* current limit and the active mask hold.
C6_IdleCommandsZero ==
    (LastUpdate /\ last.mode0 \in {"kIdle", "kError"} /\ ~last.fault)
        => AllZeroDispatched
\* An idle tick with a non-zero current reference on an active actuator and a
\* non-zero current limit.
C6_Witness ==
    /\ LastUpdate
    /\ last.mode0 = "kIdle"
    /\ ~last.fault
    /\ max_current_ > 0
    /\ \E i \in Actuators : active_mask_[i] /\ current_reference_[i] # 0

\* C7: whenever CommandCurrents dispatches, an inactive actuator has zero in
\* last_commanded_current_ and zero sent to its bus.
C7_InactiveNotDriven ==
    torque_commands # <<>>
        => \A i \in Actuators :
              ~active_mask_[i]
                  => (last_commanded_current_[i] = 0 /\ SentTo(i) = 0)
\* A dispatch with a non-zero request, within the limits, for an inactive
\* actuator while another actuator is active.
C7_Witness ==
    /\ LastUpdate
    /\ torque_commands # <<>>
    /\ \E i, j \in Actuators :
          /\ ~active_mask_[i]
          /\ Constrain1(last.requested[i], -max_current_, max_current_) # 0
          /\ active_mask_[j]

\* C8: a fault-free tick in kHoming with every raw start position within the
\* threshold writes zero_position_[i] = start_position_[i]
\* - zero_positions_cmd_[i] * direction_multipliers_[i] * homing_directions_[i]
\* for every actuator and marks all twelve axes homed.
C8_HomingZero ==
    (/\ LastUpdate
     /\ last.mode0 = "kHoming"
     /\ ~last.fault
     /\ \A i \in Actuators : Abs(raw_position[i]) <= homing_threshold)
        => /\ start_position_ = raw_position
           /\ \A i \in Actuators :
                 /\ zero_position_[i] =
                        raw_position[i]
                        - zero_positions_cmd_[i] * direction_multipliers_[i + 1]
                          * homing_directions_[i + 1]
                 /\ homed_axes_[i]
\* A successful homing tick from non-zero start positions.
C8_Witness ==
    /\ LastUpdate
    /\ last.mode0 = "kHoming"
    /\ ~last.fault
    /\ \A i \in Actuators :
          raw_position[i] # 0 /\ Abs(raw_position[i]) <= homing_threshold

\* C9: the first fault-free tick after ExecuteHomingSequence with every raw
\* start position within the threshold ends in kPositionControl with
\* just_homed_ set, having passed a command to CommandCurrents.
C9_HomingHandoff ==
    (/\ LastUpdate
     /\ last.mode0 = "kHoming"
     /\ ~last.fault
     /\ ~last.gated
     /\ \A i \in Actuators : Abs(raw_position[i]) <= homing_threshold)
        => /\ control_mode_ = "kPositionControl"
           /\ just_homed_
           /\ last.commanded

\* C10: ExecuteHomingSequence, from any mode, ends in kHoming with no axis
\* homed, every actuator active and max_current_ = current_limit_.
C10_BeginHoming ==
    last.op = "ExecuteHomingSequence"
        => /\ control_mode_ = "kHoming"
           /\ \A i \in Actuators : ~homed_axes_[i] /\ active_mask_[i]
           /\ max_current_ = current_limit_
\* ExecuteHomingSequence called in kError.
C10_Witness ==
    /\ last.op = "ExecuteHomingSequence"
    /\ last.mode0 = "kError"

\* The setters that also set the mode, and the mode each sets.
ModeSetters ==
    {"SetJointPositions", "SetCartesianPositions", "SetCartesianVelocities",
     "SetCurrent"}
ModeSetBy(op) ==
    CASE op = "SetJointPositions" -> "kPositionControl"
      [] op = "SetCurrent" -> "kCurrentControl"
      [] OTHER -> "kCartesianPositionControl"
OperatingModes ==
    {"kIdle", "kPositionControl", "kCartesianPositionControl",
     "kCurrentControl"}

\* C11: a mode-setting setter called in kIdle, kPositionControl,
\* kCartesianPositionControl or kCurrentControl ends in its own mode and is
\* no transition out of the fault mode kError; the mode is always one of the
\* six;
\* and a step that changes the mode is a mode-setting setter, SetIdle,
\* ExecuteHomingSequence, a tick that began in kHoming, or a fault (a tick or
\* an index check ending in kError).
C11_ModeTransitions ==
    [][/\ control_mode_' \in DriveControlMode
       /\ (last'.op \in ModeSetters /\ control_mode_ \in OperatingModes)
             => control_mode_' = ModeSetBy(last'.op)
       /\ (last'.op \in ModeSetters /\ control_mode_ = "kError")
             => control_mode_' = "kError"
       /\ control_mode_' # control_mode_
             => \/ last'.op \in ModeSetters
                      \cup {"SetIdle", "ExecuteHomingSequence"}
                \/ last'.op = "Update" /\ control_mode_ = "kHoming"
                \/ last'.op \in {"Update", "GetController"}
                      /\ control_mode_' = "kError"]_vars

\* C12: an operation given an actuator index outside 0..11 ends in kError
\* and changes no reference and no zero offset.
C12_InvalidIndex ==
    [][(last'.op \in {"GetController", "SetCurrent"}
          /\ last'.index \notin Actuators)
          => /\ control_mode_' = "kError"
             /\ UNCHANGED <<reference_vars, zero_position_>>]_vars

\* C13: the zero offsets change only in a successful homing tick, in
\* SetZeroPositions and in ZeroCurrentPosition; the homed flags change only
\* in ExecuteHomingSequence and in a successful homing tick.
C13_CalibrationFrame ==
    [][/\ zero_position_' # zero_position_
          => \/ last'.op \in {"SetZeroPositions", "ZeroCurrentPosition"}
             \/ /\ last'.op = "Update"
                /\ last'.mode0 = "kHoming"
                /\ ~last'.fault
                /\ ~last'.warning
       /\ homed_axes_' # homed_axes_
          => \/ last'.op = "ExecuteHomingSequence"
             \/ /\ last'.op = "Update"
                /\ last'.mode0 = "kHoming"
                /\ ~last'.fault
                /\ ~last'.warning]_vars
\* A tick in kCurrentControl after a completed homing, the calibration of
\* the homing still in place.
C13_Witness ==
    /\ LastUpdate
    /\ last.mode0 = "kCurrentControl"
    /\ \A i \in Actuators : homed_axes_[i]
    /\ zero_position_ = HomingZero(start_position_)
    /\ zero_position_ # Fill(0)

\* C14: the calibrated position of actuator i is (raw - zero_position_[i])
\* * direction_multipliers_[i], and right after ZeroCurrentPosition, with the
\* raw positions as they were, it is 0 for all twelve actuators, whatever the
\* direction multiplier.
C14_CalibrationRoundTrip ==
    /\ \A i \in Actuators :
          GetActuatorPosition(i) =
              (raw_position[i] - zero_position_[i])
              * direction_multipliers_[i + 1]
    /\ last.op = "ZeroCurrentPosition"
          => \A i \in Actuators : GetActuatorPosition(i) = 0
\* ZeroCurrentPosition called with non-zero raw positions on actuators of
\* both directions and zero offsets that differed from them.
C14_Witness ==
    /\ last.op = "ZeroCurrentPosition"
    /\ \E i, j \in Actuators :
          /\ Dir(i) = 1
          /\ Dir(j) = -1
          /\ raw_position[i] # 0
          /\ raw_position[j] # 0

\* A tick that began in kHoming, found no fault and passed the start-position
\* check.
HomingCompleted ==
    /\ LastUpdate
    /\ last.mode0 = "kHoming"
    /\ ~last.fault
    /\ ~last.warning

\* C15: every tick that completes a homing latches the handoff afresh:
\* transition_start_time is the current time, start_positions the current
\* calibrated positions and target_positions the position reference just
\* computed.
C15_LatchAfresh ==
    HomingCompleted
        => /\ transition.initialized
           /\ transition.transition_start_time = now
           /\ transition.start_positions =
                  [i \in Actuators |-> GetActuatorPosition(i)]
           /\ transition.target_positions = position_reference_

\* C16: a fault-free kPositionControl tick more than transition_duration
\* after the homing completed leaves just_homed_ clear and requests the PD
\* current toward the current position reference, not toward the latched
\* interpolation target.
C16_HandoffBounded ==
    (/\ LastUpdate
     /\ last.mode0 = "kPositionControl"
     /\ ~last.fault
     /\ homing_completed_at >= 0
     /\ now - homing_completed_at > transition_duration)
        => /\ ~just_homed_
           /\ last.requested = DirectCurrent(zero_position_, position_reference_)

\* The three torques requested for one leg.
LegRequest(requested, leg_index) ==
    <<requested[3 * leg_index], requested[3 * leg_index + 1],
      requested[3 * leg_index + 2]>>

\* C17: in a fault-free kCartesianPositionControl tick the three torques
\* written for each leg, knee soft-limit torque included, have infinity norm
\* at most max_current_.
C17_KneeWithinSaturation ==
    (LastUpdate /\ last.mode0 = "kCartesianPositionControl" /\ ~last.fault)
        => \A leg_index \in Legs :
              InfinityNorm3(LegRequest(last.requested, leg_index))
                  <= max_current_

\* C18: a reference setter leaves its reference holding the values of that
\* call only: SetJointPositions and SetCartesianPositions store their vector,
\* and after a SetCurrent(i, c) that enters kCurrentControl from another
\* mode no other element of current_reference_ holds a non-zero value of an
\* earlier SetCurrent call.
C18_ReferencesReplaced ==
    [][/\ last'.op = "SetJointPositions"
          => position_reference_' \in JointPositionInputs
       /\ last'.op = "SetCartesianPositions"
          => cartesian_position_reference_' = Fill(0)
       /\ (/\ last'.op = "SetCurrent"
           /\ last'.index \in Actuators
           /\ control_mode_ # "kCurrentControl")
          => \A j \in Actuators \ {last'.index} :
                current_reference_'[j] = 0]_vars

\* C19: the twelve homed flags are all false or all true, so the four axis
\* groups give CheckHomingStatus the same answer; they are all true exactly
\* when the homing begun last has completed, and all false after a homing
\* abort.
C19_HomedUniform ==
    /\ \/ \A i \in Actuators : homed_axes_[i]
       \/ \A i \in Actuators : ~homed_axes_[i]
    /\ \A axes \in {hip_axes_, left_abduction_axes_, right_abduction_axes_} :
          CheckHomingStatus(axes) = CheckHomingStatus(knee_axes_)
    /\ CheckHomingStatus(knee_axes_) = (homing_completed_at >= 0)
    /\ (LastUpdate /\ last.warning) => ~CheckHomingStatus(knee_axes_)
\* A homing abort in a process that completed a homing before.
C19_Witness ==
    /\ LastUpdate
    /\ last.warning
    /\ transition.initialized

\* C20: as long as max_current_ is 0 or no actuator is active, as from
\* construction until ExecuteHomingSequence or both SetMaxCurrent(> 0) and
\* SetActivations with a true entry, every torque dispatched is zero.
C20_PowerOnSafe ==
    (max_current_ = 0 \/ \A i \in Actuators : ~active_mask_[i])
        => SentTorques \subseteq {0}
\* A kCurrentControl tick that dispatched with a non-zero current reference
\* and a non-zero current limit while no actuator was ever activated.
C20_Witness ==
    /\ LastUpdate
    /\ last.mode0 = "kCurrentControl"
    /\ torque_commands # <<>>
    /\ max_current_ > 0
    /\ \A i \in Actuators : ~active_mask_[i]
    /\ \E i \in Actuators : current_reference_[i] # 0

\* Exactly four calls: front 0-3, front 4-7, rear 0-3, rear 4-7, in that
\* order, the two calls for actuators 4, 5 and 10, 11 padded with two zeros.
FourCallsInOrder ==
    /\ Len(torque_commands) = 4
    /\ <<torque_commands[1].bus, torque_commands[1].subbus>>
          = <<"front_bus_", "kIDZeroToThree">>
    /\ <<torque_commands[2].bus, torque_commands[2].subbus>>
          = <<"front_bus_", "kIDFourToSeven">>
    /\ <<torque_commands[3].bus, torque_commands[3].subbus>>
          = <<"rear_bus_", "kIDZeroToThree">>
    /\ <<torque_commands[4].bus, torque_commands[4].subbus>>
          = <<"rear_bus_", "kIDFourToSeven">>
    /\ \A k \in 1 .. 4 : Len(torque_commands[k].torques) = 4
    /\ \A k \in {2, 4} :
          /\ torque_commands[k].torques[3] = 0
          /\ torque_commands[k].torques[4] = 0

\* C21: every tick issues exactly the four CommandTorques calls, in order, or
\* none; it issues none only when it ends in kError through the fault gate of
\* CommandCurrents or the start-position abort of homing; so a tick never
\* commands one bus without the other.
C21_AllOrNothing ==
    LastUpdate
        => /\ torque_commands = <<>> \/ FourCallsInOrder
           /\ torque_commands = <<>>
                 => (control_mode_ = "kError" /\ (last.gated \/ last.warning))
           /\ {torque_commands[k].bus : k \in 1 .. Len(torque_commands)}
                 \in {{}, {"front_bus_", "rear_bus_"}}
\* A tick that dispatched a non-zero torque in the padded call of the front
\* bus and a non-zero torque to the rear bus.
C21_Witness ==
    /\ LastUpdate
    /\ Len(torque_commands) = 4
    /\ \E j \in 1 .. 2 : torque_commands[2].torques[j] # 0
    /\ \E k \in 3 .. 4, j \in 1 .. 4 : torque_commands[k].torques[j] # 0

====
